---- MODULE Spec2Model ----
(***************************************************************************)
(* Model of src/bot_fetch.py: one run of the electricity price bot, from   *)
(* the module-level configuration load to the end of main().               *)
(*                                                                         *)
(* Instants are integer minutes since an epoch (UTC).  A local datetime is *)
(* its wall-clock reading in minutes (UTC instant + the zone's offset).    *)
(* Prices are integers (hundredths of snt/kWh); an average is the exact    *)
(* rational [num, den], compared by cross-multiplication, so that the      *)
(* comparisons of the code are the comparisons of the model.               *)
(***************************************************************************)
EXTENDS Integers, Sequences, FiniteSets, TLC

VARIABLES
    pc,           \* position of the process
    conf,         \* parsed config.json (or the reason it could not be read)
    now,          \* system clock, UTC minutes
    today,        \* main: today (line 162), a local date (day number)
    start_utc,    \* main: start_utc (line 165)
    end_utc,      \* main: end_utc (line 166)
    prices,       \* main: prices (line 169), the provider's records
    filter_today, \* filter_prices: today (line 78)
    filtered,     \* main: filtered (line 170)
    top3,         \* main: top3 (line 179)
    cheapest,     \* format_cheapest_hour: block, avg (line 147)
    message,      \* main: lines / message (lines 181-193)
    exc,          \* the exception main's handler caught (line 198)
    calls,        \* the functions called so far, in order
    sent,         \* the send_telegram_message attempts so far, in order
    errlog,       \* logger.error records, in order
    exit_status   \* process exit status once the process has ended

vars == <<pc, conf, now, today, start_utc, end_utc, prices, filter_today,
          filtered, top3, cheapest, message, exc, calls, sent, errlog,
          exit_status>>

----------------------------------------------------------------------------
\* Program constants

QUARTER_HOUR_MINUTES == 15
QUARTERS_PER_HOUR == 4
\* the slice bound of sorted_prices[:3]
TOP_QUARTERS == 3

\* Bounds of the model

\* longest provider response
MaxLen == 5
\* prices range over 1..MaxPrice
MaxPrice == 2
\* the clock advances by at most this many minutes while the fetch blocks
MaxFetchMinutes == 1
\* longest provider response in the runs checked for termination
BriefLen == 1

----------------------------------------------------------------------------
\* datetime / pytz

MinutesPerHour == QUARTERS_PER_HOUR * QUARTER_HOUR_MINUTES
MinutesPerDay == 24 * MinutesPerHour

\* Python's None, for a block or a text that was not produced
None == <<>>
\* the average returned with a None block
NoneAvg == [num |-> 0, den |-> 0]
\* float("inf"): larger than every finite average under AvgLess
Infinity == [num |-> 1, den |-> 0]
\* a value for a local variable that has not been assigned
Unset == 0 - 1
\* a "date" field that datetime.fromisoformat rejects
BadDate == 0 - 1

\* the zones pytz recognises, with their UTC offset in minutes (standard time)
KnownZones == {"Europe/Helsinki"}
UtcOffset(tz) == IF tz = "Europe/Helsinki" THEN 2 * MinutesPerHour ELSE 0

\* dt.astimezone(tz): the wall-clock reading of a UTC instant in tz
astimezone(utc, tz) == utc + UtcOffset(tz)
\* tz.localize(local).astimezone(pytz.utc)
localize_to_utc(local, tz) == local - UtcOffset(tz)
\* dt_local.date()
date(local) == local \div MinutesPerDay
\* dt_local.hour
hour(local) == (local % MinutesPerDay) \div MinutesPerHour
\* dt.strftime('%H:%M')
strftime_HM(local) == <<hour(local), local % MinutesPerHour>>
\* datetime.datetime.combine(day, datetime.time(0, 0))
combine_midnight(day) == day * MinutesPerDay

\* "{:.2f}" of the rational num/den (in hundredths): the nearest hundredth,
\* an exact tie going to the even neighbour
Fmt2f(num, den) ==
    LET q == num \div den
        r == num % den
    IN  IF 2 * r < den THEN q
        ELSE IF 2 * r > den THEN q + 1
        ELSE IF q % 2 = 0 THEN q ELSE q + 1

RECURSIVE SumValues(_)
SumValues(s) == IF s = <<>> THEN 0 ELSE Head(s)[2] + SumValues(Tail(s))

AvgLess(a, b) == a.num * b.den < b.num * a.den
AvgLeq(a, b) == a.num * b.den <= b.num * a.den

----------------------------------------------------------------------------
\* Module-level configuration (lines 21-45)

ValidConf == [file |-> "ok", TELEGRAM_BOT_TOKEN |-> "token",
              TELEGRAM_CHAT_ID |-> "chat", TIMEZONE |-> "Europe/Helsinki",
              START_HOUR |-> 0, END_HOUR |-> 24]

Configs ==
    { ValidConf,
      [ValidConf EXCEPT !.END_HOUR = 1],
      [ValidConf EXCEPT !.TIMEZONE = "Mars/Olympus"],
      [ValidConf EXCEPT !.file = "missing"],
      [ValidConf EXCEPT !.file = "badjson"],
      [ValidConf EXCEPT !.TELEGRAM_BOT_TOKEN = ""],
      [ValidConf EXCEPT !.TELEGRAM_CHAT_ID = ""],
      [ValidConf EXCEPT !.START_HOUR = 24],
      [ValidConf EXCEPT !.END_HOUR = 25],
      [ValidConf EXCEPT !.START_HOUR = 0 - 1],
      [ValidConf EXCEPT !.START_HOUR = 8, !.END_HOUR = 8] }

\* the check of line 43
InvalidHours(c) ==
    \/ ~(0 <= c.START_HOUR /\ c.START_HOUR < 24)
    \/ ~(0 <= c.END_HOUR /\ c.END_HOUR <= 24)
    \/ c.START_HOUR >= c.END_HOUR

\* the reason the module-level code calls sys.exit(1), or "none"
ConfigFault(c) ==
    IF c.file = "missing" THEN "Config file not found"
    ELSE IF c.file = "badjson" THEN "Invalid JSON in config.json"
    ELSE IF c.TELEGRAM_BOT_TOKEN = "" \/ c.TELEGRAM_CHAT_ID = ""
         THEN "Missing required config"
    ELSE IF InvalidHours(c) THEN "Invalid hours"
    ELSE "none"

----------------------------------------------------------------------------
\* The price provider (get_prices_from_sahkotin, lines 47-74)

\* Offsets, from the requested start, of the quarter-hours the provider may
\* return: one buffer quarter before the range, the first hour of the day,
\* a quarter after a missing one, and one buffer quarter at the range's end.
SlotOffsets ==
    { 0 - QUARTER_HOUR_MINUTES, 0, QUARTER_HOUR_MINUTES,
      2 * QUARTER_HOUR_MINUTES, 3 * QUARTER_HOUR_MINUTES,
      5 * QUARTER_HOUR_MINUTES, MinutesPerDay }

ProviderSlots(start) == { start + o : o \in SlotOffsets }

Min(S) == CHOOSE x \in S : \A y \in S : x <= y

\* the records of slots S with values f, in chronological order
RECURSIVE Chronological(_, _)
Chronological(S, f) ==
    IF S = {} THEN <<>>
    ELSE LET m == Min(S)
         IN  <<[date |-> m, value |-> f[m]]>> \o Chronological(S \ {m}, f)

\* a payload whose record carries no parsable date
MalformedResponse == <<[date |-> BadDate, value |-> 1]>>

\* what resp.json()["prices"] may be for a request starting at start, up to
\* maxlen records
ProviderResponses(start, maxlen) ==
    UNION { { Chronological(S, f) : f \in [S -> 1..MaxPrice] } :
              S \in { T \in SUBSET ProviderSlots(start) : Cardinality(T) <= maxlen } }
    \cup {MalformedResponse}

\* The clock when the process starts: mid-morning, and the last minute of
\* the local day (21:59 UTC is 23:59 in Helsinki), on day 1 after the epoch
ClockStarts ==
    { MinutesPerDay + 10 * MinutesPerHour,
      MinutesPerDay + 22 * MinutesPerHour - 1 }

\* "ok", or the exception get_prices_from_sahkotin raises: a
\* RequestException (a timeout is one) is logged and re-raised, a KeyError
\* (a payload without "prices") passes through unlogged
FetchOutcomes == {"ok", "RequestException", "KeyError"}

----------------------------------------------------------------------------
\* filter_prices (lines 76-85)

\* the condition of line 83 on one record
KeepRecord(p, tz, tday, start_hour, end_hour) ==
    LET dt_local == astimezone(p.date, tz)
    IN  /\ date(dt_local) = tday
        /\ start_hour <= hour(dt_local)
        /\ hour(dt_local) < end_hour

\* the loop of lines 79-85; fromisoformat raises on a bad date
filter_prices(ps, start_hour, end_hour, tz, tday) ==
    IF \E i \in 1..Len(ps) : ps[i].date = BadDate
    THEN [raised |-> "ValueError", value |-> <<>>]
    ELSE LET kept == SelectSeq(ps, LAMBDA p :
                         KeepRecord(p, tz, tday, start_hour, end_hour))
         IN  [raised |-> "none",
              value |-> [i \in 1..Len(kept) |->
                           <<astimezone(kept[i].date, tz), kept[i].value>>]]

----------------------------------------------------------------------------
\* sorted(filtered, key=lambda x: x[1]) and the slice [:3] (lines 178-179)

\* a sort that also moves x before an equal y (not stable)
GoesBeforeOrTies(x, y) == x[2] <= y[2]

\* whether x, met later in the input, goes before the already placed y
GoesBefore(x, y) == x[2] < y[2]

\* x placed into the sorted sequence s: after every element it does not
\* go before (Python's sort is stable)
RECURSIVE InsertSorted(_, _)
InsertSorted(s, x) ==
    IF s = <<>> THEN <<x>>
    ELSE LET last == s[Len(s)]
         IN  IF GoesBefore(x, last)
             THEN InsertSorted(SubSeq(s, 1, Len(s) - 1), x) \o <<last>>
             ELSE s \o <<x>>

RECURSIVE SortedFrom(_, _)
SortedFrom(acc, rest) ==
    IF rest = <<>> THEN acc
    ELSE SortedFrom(InsertSorted(acc, Head(rest)), Tail(rest))

sorted(ps) == SortedFrom(<<>>, ps)

\* s[:n]
Slice(s, n) == SubSeq(s, 1, IF Len(s) < n THEN Len(s) ELSE n)

----------------------------------------------------------------------------
\* find_cheapest_hour (lines 114-136); positions are 1-based here

\* a range that stops one window early
LastStartShort(n) == n - QUARTERS_PER_HOUR

\* the last start of range(len(prices) - QUARTERS_PER_HOUR + 1)
LastStart(n) == n - QUARTERS_PER_HOUR + 1

\* prices[i:i+QUARTERS_PER_HOUR]
Block(ps, i) == SubSeq(ps, i, i + QUARTERS_PER_HOUR - 1)

\* sum(p[1] for p in block) / QUARTERS_PER_HOUR
BlockAvg(block) == [num |-> SumValues(block), den |-> QUARTERS_PER_HOUR]

\* a test that lets a later window replace an equal earlier one
IsCheaperOrEqual(avg_price, cheapest_avg) == AvgLeq(avg_price, cheapest_avg)

\* the test of line 132
IsCheaper(avg_price, cheapest_avg) == AvgLess(avg_price, cheapest_avg)

\* the loop of lines 129-134, from start i on
RECURSIVE ScanBlocks(_, _, _, _)
ScanBlocks(ps, i, cheapest_block, cheapest_avg) ==
    IF i > LastStart(Len(ps))
    THEN [block |-> cheapest_block, avg |-> cheapest_avg]
    ELSE LET block == Block(ps, i)
             avg_price == BlockAvg(block)
         IN  IF IsCheaper(avg_price, cheapest_avg)
             THEN ScanBlocks(ps, i + 1, block, avg_price)
             ELSE ScanBlocks(ps, i + 1, cheapest_block, cheapest_avg)

find_cheapest_hour(ps) ==
    IF Len(ps) < QUARTERS_PER_HOUR
    THEN [block |-> None, avg |-> NoneAvg]
    ELSE ScanBlocks(ps, 1, None, Infinity)

----------------------------------------------------------------------------
\* The report (lines 108-110, 138-155, 181-193)

format_price_line(index, dt, val) ==
    [kind |-> "quarter", index |-> index, from |-> strftime_HM(dt),
     to |-> strftime_HM(dt + QUARTER_HOUR_MINUTES), price |-> Fmt2f(val, 1)]

\* format_cheapest_hour (lines 138-155): the text, or None
format_cheapest_hour(ps) ==
    LET found == find_cheapest_hour(ps)
    IN  IF found.block = None THEN None
        ELSE LET start == found.block[1][1]
                 end == found.block[Len(found.block)][1] + QUARTER_HOUR_MINUTES
             IN  <<[kind |-> "hour", from |-> strftime_HM(start),
                    to |-> strftime_HM(end),
                    price |-> Fmt2f(found.avg.num, found.avg.den)]>>

\* lines 181-193: the lines joined into the message
report_message(c, flt, top) ==
    LET avg_price == [num |-> SumValues(flt), den |-> Len(flt)]
        cheapest_hour_text == format_cheapest_hour(flt)
    IN  [kind |-> "report",
         lines |->
            <<[kind |-> "header", from |-> c.START_HOUR, to |-> c.END_HOUR]>>
            \o [i \in 1..Len(top) |-> format_price_line(i, top[i][1], top[i][2])]
            \o <<[kind |-> "blank"]>>
            \o <<[kind |-> "average",
                  price |-> Fmt2f(avg_price.num, avg_price.den)]>>
            \o (IF cheapest_hour_text = None THEN <<>>
                ELSE <<[kind |-> "blank"]>> \o cheapest_hour_text)]

NoDataMessage ==
    [kind |-> "nodata", text |-> "No electricity price data found for today."]

ErrorMessage(e) == [kind |-> "error", text |-> <<"Error running bot: ", e>>]

\* "ok", or the exception send_telegram_message raises (lines 97-106); a
\* timeout is a RequestException too
SendOutcomes == {"ok", "RequestException"}

\* one entry of the call log
Call(fn, raised) == [fn |-> fn, raised |-> raised]

----------------------------------------------------------------------------
\* The run

Init ==
    /\ pc = "load_config"
    /\ conf \in Configs
    /\ now \in ClockStarts
    /\ today = Unset
    /\ start_utc = Unset
    /\ end_utc = Unset
    /\ prices = <<>>
    /\ filter_today = Unset
    /\ filtered = <<>>
    /\ top3 = <<>>
    /\ cheapest = [block |-> None, avg |-> NoneAvg]
    /\ message = None
    /\ exc = "none"
    /\ calls = <<>>
    /\ sent = <<>>
    /\ errlog = <<>>
    /\ exit_status = Unset

\* lines 21-45: config.json is read and validated as the module loads
LoadConfig ==
    /\ pc = "load_config"
    /\ IF ConfigFault(conf) # "none"
       THEN /\ errlog' = Append(errlog, ConfigFault(conf))
            /\ exit_status' = 1
            /\ pc' = "exited"
       ELSE /\ pc' = "main"
            /\ UNCHANGED <<errlog, exit_status>>
    /\ UNCHANGED <<conf, now, today, start_utc, end_utc, prices, filter_today,
                   filtered, top3, cheapest, message, exc, calls, sent>>

\* a main without the handler of line 198: the exception ends the process
OnRaiseUncaught == "crashed"

\* where control goes when a statement of main's try block raises
OnRaise == "except"

\* lines 159-166: the UTC range of the local day
ComputeWindow ==
    /\ pc = "main"
    /\ IF conf.TIMEZONE \notin KnownZones
       THEN /\ exc' = "UnknownTimeZoneError"
            /\ pc' = OnRaise
            /\ UNCHANGED <<today, start_utc, end_utc>>
       ELSE LET tz == conf.TIMEZONE
                start_local == combine_midnight(date(astimezone(now, tz)))
                end_local == start_local + MinutesPerDay
            IN  /\ today' = date(astimezone(now, tz))
                /\ start_utc' = localize_to_utc(start_local, tz)
                /\ end_utc' = localize_to_utc(end_local, tz)
                /\ pc' = "fetch"
                /\ exc' = exc
    /\ UNCHANGED <<conf, now, prices, filter_today, filtered, top3, cheapest,
                   message, calls, sent, errlog, exit_status>>

\* line 169 and get_prices_from_sahkotin: one blocking GET, during which
\* the clock runs on; the provider answers with at most maxlen records
FetchUpTo(maxlen) ==
    /\ pc = "fetch"
    /\ \E outcome \in FetchOutcomes, d \in 0..MaxFetchMinutes :
          /\ now' = now + d
          /\ calls' = Append(calls, Call("get_prices_from_sahkotin",
                                         IF outcome = "ok" THEN "none" ELSE outcome))
          /\ IF outcome = "ok"
             THEN /\ \E r \in ProviderResponses(start_utc, maxlen) : prices' = r
                  /\ pc' = "filter"
                  /\ UNCHANGED <<exc, errlog>>
             ELSE /\ exc' = outcome
                  /\ errlog' = IF outcome = "KeyError" THEN errlog
                                ELSE Append(errlog, "Error fetching prices from Sahkotin")
                  /\ pc' = OnRaise
                  /\ prices' = prices
    /\ UNCHANGED <<conf, today, start_utc, end_utc, filter_today, filtered,
                   top3, cheapest, message, sent, exit_status>>

Fetch == FetchUpTo(MaxLen)

FetchBrief == FetchUpTo(BriefLen)

\* a test that also takes a single point for no data
NoDataOrSingle(flt) == Len(flt) <= 1

\* "not filtered" (line 172)
NoData(flt) == flt = <<>>

\* line 170 and filter_prices, which reads the clock itself (line 78), then
\* the branch of line 172
Filter ==
    /\ pc = "filter"
    /\ LET tz == conf.TIMEZONE
           tday == date(astimezone(now, tz))
           res == filter_prices(prices, conf.START_HOUR, conf.END_HOUR, tz, tday)
       IN  /\ filter_today' = tday
           /\ IF res.raised # "none"
              THEN /\ exc' = res.raised
                   /\ pc' = OnRaise
                   /\ filtered' = filtered
              ELSE /\ filtered' = res.value
                   /\ pc' = IF NoData(res.value) THEN "send_nodata" ELSE "analyze"
                   /\ exc' = exc
    /\ calls' = Append(calls, Call("filter_prices",
          filter_prices(prices, conf.START_HOUR, conf.END_HOUR, conf.TIMEZONE,
                        date(astimezone(now, conf.TIMEZONE))).raised))
    /\ UNCHANGED <<conf, now, today, start_utc, end_utc, prices, top3,
                   cheapest, message, sent, errlog, exit_status>>

\* a call of send_telegram_message(text) from the try block: one POST
SendPrimary(text) ==
    \E outcome \in SendOutcomes :
        /\ calls' = Append(calls, Call("send_telegram_message",
                                       IF outcome = "ok" THEN "none" ELSE outcome))
        /\ sent' = Append(sent, [text |-> text, outcome |-> outcome])
        /\ IF outcome = "ok"
           THEN /\ pc' = "done"
                /\ exit_status' = 0
                /\ UNCHANGED <<exc, errlog>>
           ELSE /\ exc' = outcome
                /\ errlog' = Append(errlog, "Failed to send Telegram message")
                /\ pc' = OnRaise
                /\ exit_status' = exit_status

\* lines 173-175
SendNoData ==
    /\ pc = "send_nodata"
    /\ SendPrimary(NoDataMessage)
    /\ UNCHANGED <<conf, now, today, start_utc, end_utc, prices, filter_today,
                   filtered, top3, cheapest, message>>

\* lines 177-193: both selectors and the formatter
Analyze ==
    /\ pc = "analyze"
    /\ top3' = Slice(sorted(filtered), TOP_QUARTERS)
    /\ cheapest' = find_cheapest_hour(filtered)
    /\ message' = report_message(conf, filtered, Slice(sorted(filtered), TOP_QUARTERS))
    /\ calls' = calls \o <<Call("sorted", "none"),
                            Call("format_cheapest_hour", "none"),
                            Call("find_cheapest_hour", "none")>>
    /\ pc' = "send_report"
    /\ UNCHANGED <<conf, now, today, start_utc, end_utc, prices, filter_today,
                   filtered, exc, sent, errlog, exit_status>>

\* lines 194-197
SendReport ==
    /\ pc = "send_report"
    /\ SendPrimary(message)
    /\ UNCHANGED <<conf, now, today, start_utc, end_utc, prices, filter_today,
                   filtered, top3, cheapest, message>>

\* a handler that tries the error message again
RetryErrorSend == "except"

\* where control goes when the handler's own send raises (lines 202-203)
AfterErrorSendFailure == "done"

\* lines 198-203: the handler of main
HandleException ==
    /\ pc = "except"
    /\ \E outcome \in SendOutcomes :
          /\ calls' = Append(calls, Call("send_telegram_message",
                                         IF outcome = "ok" THEN "none" ELSE outcome))
          /\ sent' = Append(sent, [text |-> ErrorMessage(exc), outcome |-> outcome])
          /\ IF outcome = "ok"
             THEN /\ errlog' = Append(errlog, "Error running bot")
                  /\ pc' = "done"
             ELSE /\ errlog' = errlog \o <<"Error running bot",
                                           "Failed to send Telegram message",
                                           "Failed to send error message to Telegram">>
                  /\ pc' = AfterErrorSendFailure
    /\ exit_status' = IF pc' = "done" THEN 0 ELSE exit_status
    /\ UNCHANGED <<conf, now, today, start_utc, end_utc, prices, filter_today,
                   filtered, top3, cheapest, message, exc>>

Next ==
    \/ LoadConfig
    \/ ComputeWindow
    \/ Fetch
    \/ Filter
    \/ SendNoData
    \/ Analyze
    \/ SendReport
    \/ HandleException

Spec == Init /\ [][Next]_vars

\* The same run with brief provider answers.  The process is
\* single-threaded and synchronous: it keeps running until it ends.
NextBrief ==
    \/ LoadConfig
    \/ ComputeWindow
    \/ FetchBrief
    \/ Filter
    \/ SendNoData
    \/ Analyze
    \/ SendReport
    \/ HandleException

FairSpec == Init /\ [][NextBrief]_vars /\ WF_vars(NextBrief)

----------------------------------------------------------------------------
\* Vocabulary of the properties

\* filter_prices returned (line 170 completed) in this run
FilterReturned ==
    \E i \in 1..Len(calls) :
        calls[i].fn = "filter_prices" /\ calls[i].raised = "none"

\* lines 177-193 have run
Analyzed == \E i \in 1..Len(calls) : calls[i].fn = "find_cheapest_hour"

\* the starts of the windows of 4 consecutive elements of a series
WindowStarts(series) == 1..(Len(series) - 3)
Window(series, i) == SubSeq(series, i, i + 3)
WindowAvg(series, i) ==
    [num |-> series[i][2] + series[i + 1][2] + series[i + 2][2] + series[i + 3][2],
     den |-> 4]

\* the provider records kept by filter_prices, in provider order, as the
\* (local datetime, value) pairs of the result
KeptBy(ps, c, tday) ==
    LET keep(p) ==
            LET l == p.date + UtcOffset(c.TIMEZONE)
            IN  /\ l \div MinutesPerDay = tday
                /\ c.START_HOUR <= (l % MinutesPerDay) \div MinutesPerHour
                /\ (l % MinutesPerDay) \div MinutesPerHour < c.END_HOUR
        kept == SelectSeq(ps, keep)
    IN  [i \in 1..Len(kept) |->
            <<kept[i].date + UtcOffset(c.TIMEZONE), kept[i].value>>]

\* the result pairs, as provider records again
AsRecords(flt, c) ==
    [i \in 1..Len(flt) |->
        [date |-> flt[i][1] - UtcOffset(c.TIMEZONE), value |-> flt[i][2]]]

\* the position of a point in the filtered series (timestamps are distinct)
Pos(x) == CHOOSE i \in 1..Len(filtered) : filtered[i] = x

\* the attempts to deliver the report or the no-data message, and the
\* attempts to deliver an error message
PrimaryAttempts == SelectSeq(sent, LAMBDA a : a.text.kind # "error")
ErrorAttempts == SelectSeq(sent, LAMBDA a : a.text.kind = "error")
FetchCalls == SelectSeq(calls, LAMBDA k : k.fn = "get_prices_from_sahkotin")
FetchFailed == \E i \in 1..Len(FetchCalls) : FetchCalls[i].raised # "none"
PrimaryFailed == \E i \in 1..Len(PrimaryAttempts) : PrimaryAttempts[i].outcome # "ok"
ErrorSendFailed == \E i \in 1..Len(ErrorAttempts) : ErrorAttempts[i].outcome # "ok"

\* the network operations of the run, in order
NetOps ==
    LET net == SelectSeq(calls, LAMBDA k :
                   k.fn \in {"get_prices_from_sahkotin", "send_telegram_message"})
        nth(i) == Cardinality({j \in 1..i : net[j].fn = "send_telegram_message"})
    IN  [i \in 1..Len(net) |->
            IF net[i].fn = "get_prices_from_sahkotin" THEN "fetch"
            ELSE IF sent[nth(i)].text.kind = "error" THEN "error" ELSE "primary"]

----------------------------------------------------------------------------
\* C1: once main has analysed the filtered series, the series is still the
\* chronological output of filter_prices, and find_cheapest_hour returned
\* (None, None) exactly when it has fewer than 4 points, and otherwise a
\* window of 4 consecutive elements whose average is <= that of every
\* window of 4 consecutive elements.
C1_CheapestHourIsMinimal ==
    Analyzed =>
        /\ filtered = KeptBy(prices, conf, filter_today)
        /\ (Len(filtered) < 4) <=> (cheapest.block = None)
        /\ (cheapest.block = None) <=> (cheapest.avg = NoneAvg)
        /\ Len(filtered) >= 4 =>
              /\ \E i \in WindowStarts(filtered) :
                    /\ cheapest.block = Window(filtered, i)
                    /\ cheapest.avg = WindowAvg(filtered, i)
              /\ \A j \in WindowStarts(filtered) :
                    AvgLeq(cheapest.avg, WindowAvg(filtered, j))

\* a 5-point series whose cheapest block is its second window, and whose
\* three cheapest quarters are not its first three points
C1_Witness ==
    /\ Analyzed
    /\ Len(filtered) = 5
    /\ cheapest.block = Window(filtered, 2)
    /\ AvgLess(WindowAvg(filtered, 2), WindowAvg(filtered, 1))
    /\ top3 # SubSeq(filtered, 1, 3)

\* C2: among windows with the minimum average, find_cheapest_hour returns
\* the one that starts first: no window starting before the returned one
\* has an average <= the returned average.
C2_EarliestMinimumWins ==
    (Analyzed /\ Len(filtered) >= 4) =>
        /\ \E i \in WindowStarts(filtered) : cheapest.block = Window(filtered, i)
        /\ \A i, j \in WindowStarts(filtered) :
              (cheapest.block = Window(filtered, i) /\ j < i) =>
                  ~AvgLeq(WindowAvg(filtered, j), cheapest.avg)

\* two windows share the minimum average and the first was returned
C2_Witness ==
    /\ Analyzed
    /\ Len(filtered) = 5
    /\ WindowAvg(filtered, 1) = WindowAvg(filtered, 2)
    /\ filtered[1][2] # filtered[2][2]
    /\ cheapest.block = Window(filtered, 1)

\* C3: a reported cheapest-hour block is one clock hour: its 4 points are
\* consecutive quarter-hours and the reported range spans 60 minutes.
C3_BlockIsOneClockHour ==
    (Analyzed /\ cheapest.block # None) =>
        /\ \A k \in 1..3 : cheapest.block[k + 1][1] = cheapest.block[k][1] + 15
        /\ (cheapest.block[4][1] + 15) - cheapest.block[1][1] = 60

\* C4: top3 is the first min(3, n) elements of the stable ascending sort
\* of the filtered series: min(3, n) distinct points of the series, prices
\* non-decreasing, equal prices in chronological order, and every
\* unselected point no cheaper than, and when equal later than, every
\* selected one.
C4_TopQuartersStableSorted ==
    Analyzed =>
        /\ Len(top3) = (IF Len(filtered) < 3 THEN Len(filtered) ELSE 3)
        /\ \A k \in 1..Len(top3) : \E i \in 1..Len(filtered) : filtered[i] = top3[k]
        /\ \A k, m \in 1..Len(top3) :
              k < m =>
                  /\ top3[k][2] <= top3[m][2]
                  /\ top3[k] # top3[m]
                  /\ top3[k][2] = top3[m][2] => Pos(top3[k]) < Pos(top3[m])
        /\ \A i \in 1..Len(filtered) :
              (\A k \in 1..Len(top3) : top3[k] # filtered[i]) =>
                  \A k \in 1..Len(top3) :
                      /\ top3[k][2] <= filtered[i][2]
                      /\ top3[k][2] = filtered[i][2] => Pos(top3[k]) < i

\* the cheapest quarters are out of chronological order, two of them tie,
\* and an unselected point ties with the last selected one
C4_Witness ==
    /\ Analyzed
    /\ Len(filtered) = 5
    /\ top3[1][2] = top3[2][2]
    /\ Pos(top3[3]) < Pos(top3[1])
    /\ \E i \in 1..5 : Pos(top3[3]) < i /\ filtered[i][2] = top3[3][2]

\* C5: filter_prices keeps a record iff its local date is the target date
\* and its local hour is in [start_hour, end_hour), in provider order;
\* filtering its own output again changes nothing; and no record outside the
\* requested range [start_utc, end_utc) is kept.
C5_FilterContract ==
    FilterReturned =>
        /\ filtered = KeptBy(prices, conf, filter_today)
        /\ KeptBy(AsRecords(filtered, conf), conf, filter_today) = filtered
        /\ \A i \in 1..Len(filtered) :
              LET utc == filtered[i][1] - UtcOffset(conf.TIMEZONE)
              IN  start_utc <= utc /\ utc < end_utc

\* C6: when the fetch succeeded and filter_prices returned no point, the
\* primary notification is exactly the no-data message and neither selector
\* nor the formatter ran; and the no-data message is sent only when
\* filter_prices returned no point.
C6_NoDataBranch ==
    /\ (FilterReturned /\ filtered = <<>>) =>
          /\ ~Analyzed
          /\ message = None /\ top3 = <<>> /\ cheapest.block = None
          /\ \A i \in 1..Len(sent) : sent[i].text.kind # "report"
          /\ \A i \in 1..Len(PrimaryAttempts) : PrimaryAttempts[i].text = NoDataMessage
          /\ pc \in {"done", "except"} => Len(PrimaryAttempts) = 1
    /\ \A i \in 1..Len(sent) :
          sent[i].text.kind = "nodata" =>
              /\ sent[i].text.text = "No electricity price data found for today."
              /\ FilterReturned
              /\ filtered = <<>>
              /\ KeptBy(prices, conf, filter_today) = <<>>

\* the provider answered with records, none of them in today's band, and
\* the no-data message was delivered
C6_Witness ==
    /\ pc = "done"
    /\ Len(prices) >= 2
    /\ FilterReturned
    /\ filtered = <<>>
    /\ sent = <<[text |-> NoDataMessage, outcome |-> "ok"]>>

\* C7: after a failed fetch or a failed primary delivery nothing is
\* retried, exactly one error notification is attempted, and when that
\* attempt fails too the failure is logged and main returns normally.
C7_FailureHandling ==
    /\ Len(FetchCalls) <= 1
    /\ Len(PrimaryAttempts) <= 1
    /\ Len(ErrorAttempts) <= 1
    /\ (FetchFailed \/ PrimaryFailed) =>
          /\ pc \in {"except", "done"}
          /\ FetchFailed => (PrimaryAttempts = <<>> /\ ~FilterReturned)
          /\ pc = "done" =>
                /\ Len(ErrorAttempts) = 1
                /\ sent[Len(sent)].text.kind = "error"
                /\ calls[Len(calls)].fn = "send_telegram_message"
    /\ ErrorSendFailed =>
          /\ pc = "done"
          /\ exit_status = 0
          /\ errlog[Len(errlog)] = "Failed to send error message to Telegram"

\* the primary delivery failed, then the error delivery failed too
C7_Witness ==
    /\ pc = "done"
    /\ PrimaryFailed
    /\ ErrorSendFailed
    /\ Len(sent) = 2

\* C8: with a timezone name pytz does not recognise (and a configuration
\* that is valid otherwise) the process ends at startup with a non-zero
\* status, before any fetch and any notification attempt.
C8_BadTimezoneFailsStartup ==
    (conf.TIMEZONE \notin KnownZones /\ ConfigFault(conf) = "none"
        /\ pc # "load_config") =>
        /\ pc = "exited"
        /\ exit_status = 1
        /\ sent = <<>>
        /\ FetchCalls = <<>>

\* the run has ended, and if main ran, a notification was attempted and
\* the network operations were made in the order fetch, primary, error
RunEndedInformed ==
    /\ pc \in {"done", "exited"}
    /\ pc = "done" =>
          /\ Len(sent) >= 1
          /\ NetOps \in {<<"error">>, <<"fetch", "primary">>, <<"fetch", "error">>,
                          <<"fetch", "primary", "error">>}

\* C9: a run that got past the configuration load ends, and by then has
\* attempted a notification; its network operations are at most one fetch,
\* then at most one primary delivery, then at most one error delivery.
\* (calls and sent only grow, so the order at the end is the order throughout.)
C9_RunEndsInformed == <>[]RunEndedInformed

\* a finished run with all three network operations
C9_Witness ==
    /\ pc = "done"
    /\ NetOps = <<"fetch", "primary", "error">>

\* C10: filter_prices filters on the local date that main built the
\* requested range from, so records of the requested day inside the hour
\* band never end in the no-data message.
C10_SameTargetDate ==
    FilterReturned =>
        /\ filter_today = today
        /\ (\E i \in 1..Len(prices) :
                LET l == prices[i].date + UtcOffset(conf.TIMEZONE)
                IN  /\ start_utc <= prices[i].date /\ prices[i].date < end_utc
                    /\ conf.START_HOUR <= (l % MinutesPerDay) \div MinutesPerHour
                    /\ (l % MinutesPerDay) \div MinutesPerHour < conf.END_HOUR)
            => \A k \in 1..Len(sent) : sent[k].text.kind # "nodata"

====
